---- MODULE Spec2Model ----
(***************************************************************************)
(* Model of the junk-mail triage pipeline of simple-email-filter:          *)
(*   - lambda_function.py : the polling lambda (process_junk_mail)         *)
(*   - webhook_handler.py : the webhook lambda (lambda_handler and         *)
(*                          process_webhook_notification)                  *)
(* The mailbox (Microsoft Graph), the classifier (OpenAI) and the          *)
(* DynamoDB table are the environment: their answers and failures are      *)
(* nondeterministic choices.  Message ids are naturals, a larger id is a   *)
(* more recently received message.                                         *)
(***************************************************************************)
EXTENDS Integers, Naturals, Sequences, FiniteSets, TLC

VARIABLES
    mailbox,          \* ids of the messages in the Junk Email folder
    arrivals,         \* number of messages delivered since the initial state
    seenItem,         \* DynamoDB item 'seen-emails': [present, email_ids]
    pc,               \* position of the running handler, "idle" between invocations
    event,            \* the event of the last webhook request
    msgs,             \* messages fetched by the current run (ids, newest first)
    previous_ids,     \* seen-set loaded by the current run
    new_ids,          \* new_ids of the current run
    batch,            \* emails_to_classify (polling lambda)
    indices,          \* value returned by get_deletion_decisions: what the loop has yet to iterate
    i,                \* loop position in msgs (webhook)
    deleted_count,    \* deleted_count of the current run
    notifications,    \* body["value"] of the webhook request being handled
    ni,               \* position in notifications
    total_processed,  \* webhook lambda_handler accumulator
    total_deleted,    \* webhook lambda_handler accumulator
    response,         \* value returned by the last finished lambda_handler
    calls,            \* number of external calls of each kind made by the invocation
    obs,              \* what the current pipeline run did to which message
    recorded,         \* TRUE when the last run left all it fetched in the table
    seenBefore,       \* what the run before the current one fetched, if it recorded it
    quiet,            \* TRUE when that run recorded and no mail arrived since its fetch
    arrived,          \* TRUE when mail arrived since the last run's fetch
    faults,           \* failures of the environment so far
    rpc,              \* concurrent runs: position of each run
    rkind,            \* concurrent runs: "poll" or "hook" variant of each run
    rmsgs,            \* concurrent runs: messages each run fetched
    rprev,            \* concurrent runs: seen-set each run loaded
    rwritten,         \* concurrent runs: ids each run wrote to the table
    sawOther,         \* concurrent runs: the run loaded after the other's write
    lastWriter        \* concurrent runs: the run whose put_item came last, 0 if none

vars == <<mailbox, arrivals, seenItem, pc, event, msgs, previous_ids, new_ids, batch,
          indices, i, deleted_count, notifications, ni, total_processed,
          total_deleted, response, calls, obs, recorded, seenBefore, quiet, arrived,
          faults, rpc, rkind, rmsgs, rprev, rwritten, sawOther, lastWriter>>

raceVars == <<rpc, rkind, rmsgs, rprev, rwritten, sawOther, lastWriter>>

\* The two pipeline runs of the concurrent specification.
Runs == {1, 2}

(***************************************************************************)
(* Bounds of the model                                                     *)
(***************************************************************************)
MaxArrivals == 1      \* messages that arrive after the initial state
MaxReplyLen == 2      \* longest index array the classifier returns
MaxNotifs == 2        \* longest notification array in one webhook request
MaxFaults == 1        \* environment failures in one behaviour

\* Sizes of the junk folder in the initial state: empty, below the webhook
\* window, above the polling window.
InitSizes == {0, 3, 21}

\* The messages the classifier may name for deletion: the two newest of the
\* small folder, the newest of the large one and the message that enters the
\* webhook window when that one is deleted.
SpamIds == {2, 3, 16, 21}

(***************************************************************************)
(* Program constants                                                       *)
(***************************************************************************)
FetchLimit == 20      \* "$top": 20 of process_junk_mail
ClassifyLimit == 10   \* new_emails[:10]
WebhookFetch == 5     \* "$top": 5 of process_webhook_notification
HTTP_NO_CONTENT == 204
HTTP_NOT_FOUND == 404

(***************************************************************************)
(* Helpers                                                                 *)
(***************************************************************************)
Range(s) == {s[k] : k \in 1..Len(s)}

SeqsUpTo(S, n) == UNION {[1..k -> S] : k \in 0..n}

MaxOf(S) == CHOOSE m \in S : \A x \in S : x <= m

Min2(a, b) == IF a <= b THEN a ELSE b

\* listMessages with $top = n, $orderby receivedDateTime desc: the k-th
\* entry is the message with k - 1 newer ones in the folder.
Newest(S, n) ==
    [k \in 1..Min2(n, Cardinality(S)) |->
        CHOOSE x \in S : Cardinality({y \in S : y > x}) = k - 1]

\* [email for email in emails if email['id'] in ids]
FilterSeq(s, ids) ==
    LET Keep(x) == x \in ids IN SelectSeq(s, Keep)

\* s[:n]
Prefix(s, n) == SubSeq(s, 1, Min2(n, Len(s)))

NoResponse ==
    [statusCode |-> 0, ctype |-> "none", kind |-> "none", token |-> "",
     deleted |-> 0, kept |-> 0, already_seen |-> 0, processed |-> 0]

Resp(code, kind) == [NoResponse EXCEPT !.statusCode = code, !.kind = kind, !.ctype = "json"]

\* invoked: the positions of the notifications for which
\* process_webhook_notification was called.  raised: the exception that
\* reached lambda_handler ("parse" the body or its notifications, "auth",
\* "fetch", "load", "type" a TypeError on the classifier's reply, "delete").
\* classifiedIds / triedIds / countedIds: the ids the webhook request has
\* submitted to the classifier / sent a delete request for / counted in
\* processed; doubled: those it has so handled more than once; ioFailed: a
\* get_item or put_item of the request raised.
NoCalls == [auth |-> 0, folders |-> 0, fetch |-> 0, load |-> 0, classify |-> 0,
            delete |-> 0, save |-> 0, invoked |-> {}, raised |-> "none",
            classifiedIds |-> {}, triedIds |-> {}, countedIds |-> {}, doubled |-> {},
            ioFailed |-> FALSE]

NoteClassified(c, id) ==
    [c EXCEPT !.classifiedIds = @ \cup {id},
              !.doubled = IF id \in c.classifiedIds THEN @ \cup {id} ELSE @]

NoteTried(c, id) ==
    [c EXCEPT !.triedIds = @ \cup {id},
              !.doubled = IF id \in c.triedIds THEN @ \cup {id} ELSE @]

NoteCounted(c, ids) ==
    [c EXCEPT !.countedIds = @ \cup ids, !.doubled = @ \cup (ids \cap c.countedIds)]

NoteIo(c, ok) == [c EXCEPT !.ioFailed = @ \/ ~ok]

Raise(c, what) == [c EXCEPT !.raised = what]

\* loadOk: the seen-set was read; loadFailed: get_item raised; classified: ids submitted to the classifier; malformed: those whose reply
\* was not a well-formed verdict; flagged: ids a well-formed reply names for
\* deletion; named: ids a reply names for deletion, well-formed or not;
\* tried / again: ids with at least one / more than one delete request;
\* ok / failed: ids whose delete returned 204 / another status; loads / saves:
\* get_item / put_item calls of the run; late: a classifier call or a delete
\* request was made after a put_item of the run.
NoObs == [loadOk |-> FALSE, loadFailed |-> FALSE, classified |-> {}, malformed |-> {},
          flagged |-> {}, named |-> {}, tried |-> {}, again |-> {}, ok |-> {},
          failed |-> {},
          loads |-> 0, saves |-> 0, late |-> FALSE]

SeenIds == IF seenItem.present THEN seenItem.email_ids ELSE {}

Bump(c, f) == [c EXCEPT ![f] = @ + 1]

\* Mutant of NewIdsOf: the diff against the seen-set is left out.
NewIdsOf_NoDiff(current_ids, loaded) == current_ids

\* new_ids = current_ids - previous_ids
NewIdsOf(current_ids, loaded) == current_ids \ loaded

\* Mutant of AllCurrentIds: a message whose delete failed is left out.
AllCurrentIds_DropFailed(prev, new) == (prev \cup new) \ obs.failed

\* Mutant of AllCurrentIds: the ids of this run are not added.
AllCurrentIds_PreviousOnly(prev, new) == prev

\* all_current_ids = previous_ids | new_ids
AllCurrentIds(prev, new) == prev \cup new

\* Mutant of AlreadySeen: the skip of already-processed messages is left out.
AlreadySeen_Never(email_id, prev) == FALSE

\* if email_id in previous_ids: continue
AlreadySeen(email_id, prev) == email_id \in prev

\* Mutant of LoadSeen: the exception of get_item is not caught.
LoadSeen_Uncaught(ok) == [raised |-> ~ok, ids |-> IF ok THEN SeenIds ELSE {}]

\* previous_ids = set(); try: get_item ... except Exception: (logged).  ok is
\* FALSE when get_item raises.
LoadSeen(ok) == [raised |-> FALSE, ids |-> IF ok THEN SeenIds ELSE {}]

\* Mutant of NothingNew: the early return is left out.
NothingNew_Never(new) == FALSE

\* if not new_ids: return
NothingNew(new) == new = {}

\* Mutant of put_item: the write merges with the stored item.
put_item_Merge(stored, ids) ==
    [present |-> TRUE,
     email_ids |-> (IF stored.present THEN stored.email_ids ELSE {}) \cup ids]

\* table.put_item(Item={'id': 'seen-emails', 'email_ids': ...}): the item is
\* replaced as a whole.
put_item(stored, ids) == [present |-> TRUE, email_ids |-> ids]

\* Mutant of DeleteSucceeded: every answered delete counts as a success.
DeleteSucceeded_AnyStatus(status) == status # 0

\* response.status_code == 204
DeleteSucceeded(status) == status = HTTP_NO_CONTENT

(***************************************************************************)
(* The classifier's reply to the polling lambda (JSON index protocol).     *)
(* kind: "api_error" the call raised; "text" the content is not JSON (the  *)
(* empty string included); "null" JSON that is not iterable (null, a       *)
(* number); "list" a JSON array, whose elements are integers or something  *)
(* else (a string, a float, an object).                                    *)
(***************************************************************************)
ReplyInts == {-1, 0, 1, ClassifyLimit}

ReplyElems == {[int |-> TRUE, v |-> n] : n \in ReplyInts} \cup {[int |-> FALSE, v |-> 0]}

PollReplies ==
    {[kind |-> k, items |-> <<>>] : k \in {"api_error", "text", "null"}}
    \cup {[kind |-> "list", items |-> s] : s \in SeqsUpTo(ReplyElems, MaxReplyLen)}

\* A well-formed verdict of the index protocol: a JSON array of integers.
WellFormedIndices(reply) ==
    /\ reply.kind = "list"
    /\ \A k \in 1..Len(reply.items) : reply.items[k].int

\* The positions of a reply's array that name a message of a batch of n.
InRange(reply, n) ==
    {k \in 1..Len(reply.items) :
        reply.items[k].int /\ reply.items[k].v >= 0 /\ reply.items[k].v < n}

\* get_deletion_decisions: what the caller receives.  iterable = FALSE is a
\* parsed value that a for loop cannot iterate.
get_deletion_decisions(reply) ==
    IF reply.kind \in {"api_error", "text"} THEN [iterable |-> TRUE, items |-> <<>>]
    ELSE IF reply.kind = "null" THEN [iterable |-> FALSE, items |-> <<>>]
    ELSE [iterable |-> TRUE, items |-> reply.items]

NoIndices == [iterable |-> TRUE, items |-> <<>>]

(***************************************************************************)
(* The classifier's reply to the webhook lambda (single-character          *)
(* protocol): the call raised, or a content string (a sequence of          *)
(* characters; None counts as the empty string).                           *)
(***************************************************************************)
HookReplies ==
    {[kind |-> "api_error", content |-> <<>>]}
    \cup {[kind |-> "content", content |-> c] :
            c \in {<<>>, <<"0">>, <<"1">>, <<"1", " ">>, <<"1", "0">>, <<"x">>}}

RECURSIVE LStrip(_)
LStrip(s) == IF s # <<>> /\ Head(s) = " " THEN LStrip(Tail(s)) ELSE s

RECURSIVE RStrip(_)
RStrip(s) == IF s # <<>> /\ s[Len(s)] = " " THEN RStrip(SubSeq(s, 1, Len(s) - 1)) ELSE s

\* str.strip()
Strip(s) == RStrip(LStrip(s))

\* A well-formed verdict of the single-character protocol: '1' or '0'.
WellFormedChar(reply) ==
    /\ reply.kind = "content"
    /\ Strip(reply.content) \in {<<"0">>, <<"1">>}

\* The content of the reply begins, after stripping, with '1'.
SaysDelete(reply) ==
    /\ reply.kind = "content"
    /\ Strip(reply.content) # <<>>
    /\ Head(Strip(reply.content)) = "1"

\* Mutant of get_deletion_decision: an API error counts as delete.
get_deletion_decision_FailOpen(reply) ==
    reply.kind = "api_error" \/ SaysDelete(reply)

\* get_deletion_decision: TRUE means delete.
get_deletion_decision(reply) ==
    IF reply.kind = "api_error" THEN FALSE
    ELSE LET raw == Strip(reply.content)
             decision == IF raw # <<>> THEN raw[1] ELSE "0"
         IN decision = "1"

(***************************************************************************)
(* Webhook events                                                          *)
(***************************************************************************)
Tokens == {"abc123", "t0"}

Notifs ==
    {[changeType |-> "created", resource |-> TRUE],
     [changeType |-> "created", resource |-> FALSE],
     [changeType |-> "updated", resource |-> TRUE]}

\* The value arrays of a request body: arrays of notifications as Graph
\* sends them (with a resource), and a lone notification without resource.
Values ==
    SeqsUpTo({n \in Notifs : n.resource}, MaxNotifs)
    \cup {<<n>> : n \in {m \in Notifs : ~m.resource}}

\* query: "none" no validationToken among the query parameters (or no
\* parameters at all), or the validationToken.  body: absent, not JSON, or JSON
\* with the value array.
Events ==
    {[query |-> q, body |-> b, value |-> <<>>] :
        q \in {"none"} \cup Tokens, b \in {"absent", "malformed"}}
    \cup {[query |-> q, body |-> "json", value |-> v] :
        q \in {"none"} \cup Tokens, v \in Values}

NoEvent == [query |-> "none", body |-> "absent", value |-> <<>>]

\* Mutant of IsCreated: every notification is routed to the pipeline.
IsCreated_AnyChange(n) == TRUE

\* change_type == "created"
IsCreated(n) == n.changeType = "created"

\* Mutant of IsValidation: a request with notifications is handled as such.
IsValidation_BodyFirst(e) == e.query \in Tokens /\ e.value = <<>>

\* query_params and "validationToken" in query_params
IsValidation(e) == e.query \in Tokens

(***************************************************************************)
(* Initial state: a junk folder of one of the initial sizes, an empty      *)
(* table, no invocation running.                                           *)
(***************************************************************************)
Init ==
    /\ \E n \in InitSizes : mailbox = 1..n
    /\ arrivals = 0
    /\ seenItem = [present |-> FALSE, email_ids |-> {}]
    /\ pc = "idle"
    /\ event = NoEvent
    /\ msgs = <<>>
    /\ previous_ids = {}
    /\ new_ids = {}
    /\ batch = <<>>
    /\ indices = NoIndices
    /\ i = 1
    /\ deleted_count = 0
    /\ notifications = <<>>
    /\ ni = 1
    /\ total_processed = 0
    /\ total_deleted = 0
    /\ response = NoResponse
    /\ calls = NoCalls
    /\ obs = NoObs
    /\ recorded = FALSE
    /\ seenBefore = {}
    /\ quiet = FALSE
    /\ arrived = FALSE
    /\ faults = 0
    /\ rpc = [r \in Runs |-> "start"]
    /\ rkind = [r \in Runs |-> "poll"]
    /\ rmsgs = [r \in Runs |-> <<>>]
    /\ rprev = [r \in Runs |-> {}]
    /\ rwritten = [r \in Runs |-> {}]
    /\ sawOther = [r \in Runs |-> FALSE]
    /\ lastWriter = 0

world == <<mailbox, arrivals, seenItem>>
locals == <<msgs, previous_ids, new_ids, batch, indices, i, deleted_count>>
hookVars == <<event, notifications, ni, total_processed, total_deleted>>

\* The environment fails once more (when bad), within the budget.
Fault(bad) ==
    /\ bad => faults < MaxFaults
    /\ faults' = IF bad THEN faults + 1 ELSE faults

runVars == <<recorded, seenBefore, quiet, arrived>>

\* A run starts: it remembers what the run before it left behind.  fetched
\* is what this run got from the folder.
BeginRun ==
    /\ seenBefore' = IF recorded THEN Range(msgs) ELSE {}
    /\ quiet' = (recorded /\ ~arrived)
    /\ recorded' = FALSE
    /\ arrived' = FALSE

\* A message is delivered to the junk folder (between two invocations; a run
\* does not look at the folder again after its fetch).  arrived matters only
\* after a run that recorded what it fetched.
Arrive ==
    /\ pc = "idle"
    /\ arrivals < MaxArrivals
    /\ mailbox' = mailbox \cup {MaxOf(InitSizes) + arrivals + 1}
    /\ arrivals' = arrivals + 1
    /\ arrived' = recorded
    /\ UNCHANGED <<seenItem, pc, locals, hookVars, response, calls, obs, recorded,
                   seenBefore, quiet, faults>>
    /\ UNCHANGED raceVars

\* The answer of DELETE /me/messages/{id}: 204, another status, or 0 when
\* the request raised.  A message that is gone cannot answer 204; a message
\* that is there answers something else only when the environment fails.
DeleteStatus(id, status) ==
    /\ status \in {HTTP_NO_CONTENT, HTTP_NOT_FOUND, 0}
    /\ status = HTTP_NO_CONTENT => id \in mailbox
    /\ Fault(status = 0 \/ (status = HTTP_NOT_FOUND /\ id \in mailbox))

ObsDelete(o, id, status) ==
    [o EXCEPT !.tried = @ \cup {id},
              !.late = @ \/ o.saves > 0,
              !.again = IF id \in o.tried THEN @ \cup {id} ELSE @,
              !.ok = IF status = HTTP_NO_CONTENT THEN @ \cup {id} ELSE @,
              !.failed = IF status = HTTP_NOT_FOUND THEN @ \cup {id} ELSE @]

(***************************************************************************)
(* Polling lambda: lambda_function.lambda_handler -> process_junk_mail     *)
(***************************************************************************)

\* The handler returns r; an exception has been turned into a 500 by
\* lambda_handler.
PollReturn(r) ==
    /\ response' = r
    /\ pc' = "done"

\* Authentication, folder lookup and fetch of the 20 newest messages.
PollStart ==
    /\ pc = "idle"
    /\ \E net \in {"ok", "auth_fail", "no_junk", "fetch_fail"} :
         LET fetched == Newest(mailbox, FetchLimit) IN
         /\ Fault(net # "ok")
         /\ obs' = NoObs
         /\ batch' = <<>>
         /\ indices' = NoIndices
         /\ i' = 1
         /\ deleted_count' = 0
         /\ previous_ids' = {}
         /\ new_ids' = {}
         /\ CASE net = "auth_fail" ->
                   /\ calls' = Raise(Bump(NoCalls, "auth"), "auth")
                   /\ UNCHANGED <<msgs, runVars>>
                   /\ PollReturn(Resp(500, "error"))
              [] net = "no_junk" ->
                   /\ calls' = Bump(Bump(NoCalls, "auth"), "folders")
                   /\ UNCHANGED <<msgs, runVars>>
                   /\ PollReturn(Resp(200, "no_junk"))
              [] net = "fetch_fail" ->
                   /\ calls' = Raise(Bump(Bump(Bump(NoCalls, "auth"), "folders"), "fetch"),
                                     "fetch")
                   /\ UNCHANGED <<msgs, runVars>>
                   /\ PollReturn(Resp(500, "error"))
              [] net = "ok" ->
                   /\ calls' = Bump(Bump(Bump(NoCalls, "auth"), "folders"), "fetch")
                   /\ msgs' = fetched
                   /\ BeginRun
                   /\ IF fetched = <<>>
                        THEN PollReturn(Resp(200, "no_emails"))
                        ELSE /\ pc' = "p_load"
                             /\ response' = NoResponse
    /\ event' = NoEvent
    /\ notifications' = <<>>
    /\ ni' = 1
    /\ total_processed' = 0
    /\ total_deleted' = 0
    /\ UNCHANGED world
    /\ UNCHANGED raceVars

\* Load of the seen-set, diff, and the short-circuit when nothing is new.
PollLoad ==
    /\ pc = "p_load"
    /\ \E ok \in BOOLEAN :
         LET loaded == LoadSeen(ok).ids
             fresh == NewIdsOf(Range(msgs), loaded)
         IN
         /\ Fault(~ok)
         /\ previous_ids' = loaded
         /\ new_ids' = fresh
         /\ obs' = [obs EXCEPT !.loadOk = ok, !.loadFailed = ~ok, !.loads = @ + 1]
         /\ calls' = IF LoadSeen(ok).raised THEN Raise(Bump(calls, "load"), "load")
                      ELSE Bump(calls, "load")
         /\ IF LoadSeen(ok).raised
              THEN /\ batch' = <<>>
                   /\ UNCHANGED recorded
                   /\ PollReturn(Resp(500, "error"))
            ELSE IF NothingNew(fresh)
              THEN /\ batch' = <<>>
                   /\ recorded' = TRUE
                   /\ PollReturn([Resp(200, "no_new") EXCEPT !.deleted = 0, !.kept = Len(msgs)])
              ELSE /\ batch' = Prefix(FilterSeq(msgs, fresh), ClassifyLimit)
                   /\ UNCHANGED recorded
                   /\ pc' = "p_classify"
                   /\ UNCHANGED response
    /\ UNCHANGED <<world, msgs, indices, i, deleted_count, hookVars, seenBefore,
                   quiet, arrived>>
    /\ UNCHANGED raceVars

\* The one classifier call of the run.
PollClassify ==
    /\ pc = "p_classify"
    /\ \E reply \in PollReplies :
         LET named == {batch[reply.items[k].v + 1] : k \in InRange(reply, Len(batch))} IN
         /\ Fault(~WellFormedIndices(reply))
         /\ named \subseteq SpamIds
         /\ indices' = get_deletion_decisions(reply)
         /\ obs' = [obs EXCEPT
                      !.late = @ \/ obs.saves > 0,
                      !.classified = Range(batch),
                      !.malformed = IF WellFormedIndices(reply) THEN {} ELSE Range(batch),
                      !.flagged = IF WellFormedIndices(reply) THEN named ELSE {},
                      !.named = named]
    /\ calls' = Bump(calls, "classify")
    /\ i' = 1
    /\ pc' = "p_delete"
    /\ UNCHANGED <<world, msgs, previous_ids, new_ids, batch, deleted_count, hookVars,
                   response, runVars>>
    /\ UNCHANGED raceVars

\* One iteration of "for idx in indices_to_delete" (or its end).
PollDelete ==
    /\ pc = "p_delete"
    /\ IF ~indices.iterable
         THEN \* TypeError: the parsed reply cannot be iterated
              /\ PollReturn(Resp(500, "error"))
              /\ calls' = Raise(calls, "type")
              /\ indices' = NoIndices
              /\ UNCHANGED <<mailbox, deleted_count, obs, faults>>
       ELSE IF indices.items = <<>>
         THEN /\ pc' = "p_save"
              /\ UNCHANGED <<mailbox, indices, deleted_count, calls, obs, faults, response>>
       ELSE LET idx == Head(indices.items)
                rest == [indices EXCEPT !.items = Tail(@)]
            IN
            IF ~idx.int
              THEN \* TypeError in the comparison or the subscript
                   /\ PollReturn(Resp(500, "error"))
                   /\ calls' = Raise(calls, "type")
                   /\ indices' = NoIndices
                   /\ UNCHANGED <<mailbox, deleted_count, obs, faults>>
            ELSE IF idx.v < 0 \/ idx.v >= Len(batch)
              THEN /\ indices' = rest
                   /\ UNCHANGED <<mailbox, deleted_count, calls, obs, faults, response, pc>>
            ELSE LET id == batch[idx.v + 1] IN
                 \E status \in {HTTP_NO_CONTENT, HTTP_NOT_FOUND, 0} :
                   /\ DeleteStatus(id, status)
                   /\ calls' = IF status = 0 THEN Raise(Bump(calls, "delete"), "delete")
                                ELSE Bump(calls, "delete")
                   /\ obs' = ObsDelete(obs, id, status)
                   /\ IF status = 0
                        THEN \* session.delete raised
                             /\ PollReturn(Resp(500, "error"))
                             /\ indices' = NoIndices
                             /\ UNCHANGED <<mailbox, deleted_count>>
                        ELSE /\ mailbox' = IF status = HTTP_NO_CONTENT
                                             THEN mailbox \ {id} ELSE mailbox
                             /\ deleted_count' = IF DeleteSucceeded(status)
                                                   THEN deleted_count + 1 ELSE deleted_count
                             /\ indices' = rest
                             /\ UNCHANGED <<pc, response>>
    /\ UNCHANGED <<arrivals, seenItem, msgs, previous_ids, new_ids, batch, i,
                   hookVars, runVars>>
    /\ UNCHANGED raceVars

\* put_item of the seen-set and the summary.
PollSave ==
    /\ pc = "p_save"
    /\ \E ok \in BOOLEAN :
         /\ Fault(~ok)
         /\ seenItem' = IF ok THEN put_item(seenItem, Range(msgs)) ELSE seenItem
         /\ recorded' = ok
    /\ calls' = Bump(calls, "save")
    /\ PollReturn([Resp(200, "summary") EXCEPT
                     !.deleted = deleted_count,
                     !.kept = Len(batch) - deleted_count,
                     !.already_seen = Len(msgs) - Cardinality(new_ids)])
    /\ obs' = [obs EXCEPT !.saves = @ + 1]
    /\ UNCHANGED <<mailbox, arrivals, locals, hookVars, seenBefore, quiet, arrived>>
    /\ UNCHANGED raceVars

(***************************************************************************)
(* Webhook lambda: webhook_handler.lambda_handler and                      *)
(* process_webhook_notification                                            *)
(***************************************************************************)

\* Mutant of HookCatch: the exception leaves lambda_handler.
HookCatch_Reraise == [NoResponse EXCEPT !.kind = "raised"]

\* except Exception as e: return {"statusCode": 500, "body": {"error": ...}}
HookCatch == Resp(500, "error")

\* lambda_handler returns r.
HookReturn(r) ==
    /\ response' = r
    /\ pc' = "done"

\* process_webhook_notification returns {processed, deleted}: the loop of
\* lambda_handler adds them up and goes to the next notification.
HookResult(processed, deleted) ==
    /\ total_processed' = total_processed + processed
    /\ total_deleted' = total_deleted + deleted
    /\ ni' = ni + 1
    /\ pc' = "h_notif"

\* Entry of lambda_handler: the validation handshake, the parse of the body.
HookRequest ==
    /\ pc = "idle"
    /\ \E e \in Events :
         /\ event' = e
         /\ IF IsValidation(e)
              THEN /\ HookReturn([NoResponse EXCEPT !.statusCode = 200, !.ctype = "text/plain",
                                                    !.kind = "token", !.token = e.query])
                   /\ UNCHANGED notifications
            ELSE IF e.body = "malformed"
              THEN /\ HookReturn(HookCatch)
                   /\ UNCHANGED notifications
            ELSE IF e.value = <<>>
              THEN /\ HookReturn(Resp(200, "no_notifications"))
                   /\ notifications' = <<>>
            ELSE /\ notifications' = e.value
                 /\ pc' = "h_notif"
                 /\ response' = NoResponse
    /\ ni' = 1
    /\ total_processed' = 0
    /\ total_deleted' = 0
    /\ calls' = IF ~IsValidation(event') /\ event'.body = "malformed"
                 THEN Raise(NoCalls, "parse") ELSE NoCalls
    /\ obs' = NoObs
    /\ previous_ids' = {}
    /\ new_ids' = {}
    /\ batch' = <<>>
    /\ indices' = NoIndices
    /\ i' = 1
    /\ deleted_count' = 0
    /\ UNCHANGED <<world, msgs, runVars, faults>>
    /\ UNCHANGED raceVars

\* Head of "for notification in notifications", and for a created
\* notification the start of process_webhook_notification up to the fetch.
HookNotif ==
    /\ pc = "h_notif"
    /\ IF ni > Len(notifications)
         THEN /\ HookReturn([Resp(200, "hook_summary") EXCEPT
                               !.processed = total_processed, !.deleted = total_deleted])
              /\ UNCHANGED <<ni, total_processed, total_deleted, locals, calls, obs,
                             runVars, faults>>
       ELSE IF ~IsCreated(notifications[ni])
         THEN /\ ni' = ni + 1
              /\ UNCHANGED <<pc, response, total_processed, total_deleted, locals, calls,
                             obs, runVars, faults>>
       ELSE \E net \in {"ok", "auth_fail", "no_junk", "fetch_fail"} :
              LET fetched == Newest(mailbox, WebhookFetch)
                  resource == notifications[ni].resource
                  called == [calls EXCEPT !.invoked = @ \cup {ni}]
              IN
              /\ Fault(net # "ok")
              /\ obs' = NoObs
              /\ previous_ids' = {}
              /\ new_ids' = {}
              /\ deleted_count' = 0
              /\ i' = 1
              /\ UNCHANGED <<batch, indices>>
              /\ IF net = "auth_fail"
                   THEN /\ calls' = Raise(Bump(called, "auth"), "auth")
                        /\ HookReturn(HookCatch)
                        /\ UNCHANGED <<ni, total_processed, total_deleted, msgs, runVars>>
                 ELSE IF ~resource
                   THEN /\ calls' = Bump(called, "auth")
                        /\ HookResult(0, 0)
                        /\ UNCHANGED <<response, msgs, runVars>>
                 ELSE IF net = "no_junk"
                   THEN /\ calls' = Bump(Bump(called, "auth"), "folders")
                        /\ HookResult(0, 0)
                        /\ UNCHANGED <<response, msgs, runVars>>
                 ELSE IF net = "fetch_fail"
                   THEN /\ calls' = Raise(Bump(Bump(Bump(called, "auth"), "folders"),
                                                "fetch"), "fetch")
                        /\ HookReturn(HookCatch)
                        /\ UNCHANGED <<ni, total_processed, total_deleted, msgs, runVars>>
                 ELSE /\ calls' = Bump(Bump(Bump(called, "auth"), "folders"), "fetch")
                      /\ msgs' = fetched
                      /\ BeginRun
                      /\ IF fetched = <<>>
                           THEN /\ HookResult(0, 0)
                                /\ UNCHANGED response
                           ELSE /\ pc' = "h_load"
                                /\ UNCHANGED <<response, ni, total_processed, total_deleted>>
    /\ UNCHANGED <<world, event, notifications>>
    /\ UNCHANGED raceVars

\* Load of the seen-set.
HookLoad ==
    /\ pc = "h_load"
    /\ \E ok \in BOOLEAN :
         /\ Fault(~ok)
         /\ previous_ids' = LoadSeen(ok).ids
         /\ obs' = [obs EXCEPT !.loadOk = ok, !.loadFailed = ~ok, !.loads = @ + 1]
         /\ IF LoadSeen(ok).raised
              THEN /\ calls' = Raise(Bump(NoteIo(calls, ok), "load"), "load")
                   /\ HookReturn(HookCatch)
              ELSE /\ calls' = Bump(NoteIo(calls, ok), "load")
                   /\ pc' = "h_msg"
                   /\ UNCHANGED response
    /\ deleted_count' = 0
    /\ new_ids' = {}
    /\ i' = 1
    /\ UNCHANGED <<world, msgs, batch, indices, hookVars, runVars>>
    /\ UNCHANGED raceVars

\* One iteration of "for msg in msgs" (or its end): skip a seen message,
\* classify an unseen one and delete it when the verdict says so.
HookMsg ==
    /\ pc = "h_msg"
    /\ IF i > Len(msgs)
         THEN /\ pc' = "h_save"
              /\ UNCHANGED <<mailbox, new_ids, i, deleted_count, response, calls, obs,
                             faults>>
       ELSE LET email_id == msgs[i] IN
            /\ new_ids' = new_ids \cup {email_id}
            /\ IF AlreadySeen(email_id, previous_ids)
                 THEN /\ i' = i + 1
                      /\ UNCHANGED <<mailbox, deleted_count, response, calls, obs, faults,
                                     pc>>
                 ELSE \E reply \in HookReplies :
                        LET should_delete == get_deletion_decision(reply)
                            o1 == [obs EXCEPT
                                     !.late = @ \/ obs.saves > 0,
                                     !.classified = @ \cup {email_id},
                                     !.malformed = IF WellFormedChar(reply) THEN @
                                                   ELSE @ \cup {email_id},
                                     !.flagged = IF WellFormedChar(reply) /\ should_delete
                                                   THEN @ \cup {email_id} ELSE @,
                                     !.named = IF SaysDelete(reply)
                                                 THEN @ \cup {email_id} ELSE @]
                        IN
                        /\ should_delete => email_id \in SpamIds
                        /\ IF ~should_delete
                             THEN /\ Fault(~WellFormedChar(reply))
                                  /\ calls' = Bump(NoteClassified(calls, email_id), "classify")
                                  /\ obs' = o1
                                  /\ i' = i + 1
                                  /\ UNCHANGED <<mailbox, deleted_count, response, pc>>
                             ELSE \E status \in {HTTP_NO_CONTENT, HTTP_NOT_FOUND, 0} :
                                    /\ status \in {HTTP_NO_CONTENT, HTTP_NOT_FOUND, 0}
                                    /\ status = HTTP_NO_CONTENT => email_id \in mailbox
                                    /\ LET bad == (IF WellFormedChar(reply) THEN 0 ELSE 1)
                                                  + (IF status = 0 \/ (status = HTTP_NOT_FOUND
                                                                       /\ email_id \in mailbox)
                                                       THEN 1 ELSE 0)
                                       IN /\ faults + bad <= MaxFaults
                                          /\ faults' = faults + bad
                                    /\ LET c2 == NoteTried(NoteClassified(calls, email_id),
                                                           email_id)
                                       IN calls' = IF status = 0
                                                     THEN Raise(Bump(Bump(c2, "classify"),
                                                                     "delete"), "delete")
                                                     ELSE Bump(Bump(c2, "classify"), "delete")
                                    /\ obs' = ObsDelete(o1, email_id, status)
                                    /\ IF status = 0
                                         THEN /\ HookReturn(HookCatch)
                                              /\ UNCHANGED <<mailbox, i, deleted_count>>
                                         ELSE /\ mailbox' = IF status = HTTP_NO_CONTENT
                                                              THEN mailbox \ {email_id}
                                                              ELSE mailbox
                                              /\ deleted_count' =
                                                   IF DeleteSucceeded(status)
                                                     THEN deleted_count + 1 ELSE deleted_count
                                              /\ i' = i + 1
                                              /\ UNCHANGED <<pc, response>>
    /\ UNCHANGED <<arrivals, seenItem, msgs, previous_ids, batch, indices, hookVars,
                   runVars>>
    /\ UNCHANGED raceVars

\* put_item of the seen-set and the return of process_webhook_notification.
HookSave ==
    /\ pc = "h_save"
    /\ \E ok \in BOOLEAN :
         /\ Fault(~ok)
         /\ seenItem' = IF ok THEN put_item(seenItem, AllCurrentIds(previous_ids, new_ids))
                        ELSE seenItem
         /\ recorded' = ok
         /\ calls' = Bump(NoteCounted(NoteIo(calls, ok), new_ids \ previous_ids), "save")
    /\ HookResult(Cardinality(new_ids \ previous_ids), deleted_count)
    /\ obs' = [obs EXCEPT !.saves = @ + 1]
    /\ UNCHANGED <<mailbox, arrivals, locals, event, notifications, response,
                   seenBefore, quiet, arrived>>
    /\ UNCHANGED raceVars

\* The invocation is over: the response has gone to the caller and the
\* handler's frame is discarded.  What the run fetched is remembered for the
\* next run only when the run left it in the table.
Finish ==
    /\ pc = "done"
    /\ pc' = "idle"
    /\ response' = NoResponse
    /\ event' = NoEvent
    /\ notifications' = <<>>
    /\ ni' = 1
    /\ total_processed' = 0
    /\ total_deleted' = 0
    /\ previous_ids' = {}
    /\ new_ids' = {}
    /\ batch' = <<>>
    /\ indices' = NoIndices
    /\ i' = 1
    /\ deleted_count' = 0
    /\ calls' = NoCalls
    /\ obs' = NoObs
    /\ msgs' = IF recorded THEN msgs ELSE <<>>
    /\ seenBefore' = {}
    /\ quiet' = FALSE
    /\ arrived' = (recorded /\ arrived)
    /\ UNCHANGED <<world, recorded, faults>>
    /\ UNCHANGED raceVars

Next ==
    \/ Arrive
    \/ Finish
    \/ PollStart
    \/ PollLoad
    \/ PollClassify
    \/ PollDelete
    \/ PollSave
    \/ HookRequest
    \/ HookNotif
    \/ HookLoad
    \/ HookMsg
    \/ HookSave

Spec == Init /\ [][Next]_vars

\* The polling lambda is invoked again and again by its schedule, and an
\* invocation that has started runs to its end.
FairSpec ==
    /\ Spec
    /\ SF_vars(PollStart)
    /\ WF_vars(PollLoad \/ PollClassify \/ PollDelete \/ PollSave)
    /\ WF_vars(HookNotif \/ HookLoad \/ HookMsg \/ HookSave)
    /\ WF_vars(Finish)

(***************************************************************************)
(* Concurrent runs.  The hosting environment may start two invocations at  *)
(* the same time: two pipeline runs, each the polling or the webhook       *)
(* variant, take their steps in any order against the same folder and the  *)
(* same table.  The calls succeed here; their failures are in Spec.        *)
(***************************************************************************)
mainLocals == <<pc, event, msgs, previous_ids, new_ids, batch, indices, i, deleted_count,
                notifications, ni, total_processed, total_deleted, response, calls, obs,
                recorded, seenBefore, quiet, arrived, faults>>

\* The messages a run submits to the classifier.
RaceBatch(r) ==
    IF rkind[r] = "poll"
      THEN Range(Prefix(FilterSeq(rmsgs[r], NewIdsOf(Range(rmsgs[r]), rprev[r])),
                        ClassifyLimit))
      ELSE {m \in Range(rmsgs[r]) : ~AlreadySeen(m, rprev[r])}

\* A message is delivered while the runs are under way.
RaceArrive ==
    /\ \E r \in Runs : rpc[r] # "done"
    /\ arrivals < MaxArrivals
    /\ mailbox' = mailbox \cup {MaxOf(InitSizes) + arrivals + 1}
    /\ arrivals' = arrivals + 1
    /\ UNCHANGED <<seenItem, mainLocals, raceVars>>

\* A run starts: authentication, folder lookup, fetch of its window.
RaceFetch ==
    \E r \in Runs, kind \in {"poll", "hook"} :
        LET fetched == Newest(mailbox, IF kind = "poll" THEN FetchLimit ELSE WebhookFetch) IN
        /\ rpc[r] = "start"
        /\ rkind' = [rkind EXCEPT ![r] = kind]
        /\ rmsgs' = [rmsgs EXCEPT ![r] = fetched]
        /\ rpc' = [rpc EXCEPT ![r] = IF fetched = <<>> THEN "done" ELSE "load"]
        /\ UNCHANGED <<world, mainLocals, rprev, rwritten, sawOther, lastWriter>>

\* get_item of the seen-set; the polling run returns when nothing is new.
RaceLoad ==
    \E r \in Runs :
        LET loaded == LoadSeen(TRUE).ids IN
        /\ rpc[r] = "load"
        /\ rprev' = [rprev EXCEPT ![r] = loaded]
        /\ sawOther' = [sawOther EXCEPT ![r] = (lastWriter # 0)]
        /\ rpc' = [rpc EXCEPT ![r] =
                      IF rkind[r] = "poll" /\ NothingNew(NewIdsOf(Range(rmsgs[r]), loaded))
                        THEN "done" ELSE "work"]
        /\ UNCHANGED <<world, mainLocals, rkind, rmsgs, rwritten, lastWriter>>

\* Classification and deletion: the messages of D are flagged and deleted.
RaceWork ==
    \E r \in Runs :
        \E D \in SUBSET (RaceBatch(r) \cap SpamIds \cap mailbox) :
            /\ rpc[r] = "work"
            /\ mailbox' = mailbox \ D
            /\ rpc' = [rpc EXCEPT ![r] = "save"]
            /\ UNCHANGED <<arrivals, seenItem, mainLocals, rkind, rmsgs, rprev, rwritten,
                           sawOther, lastWriter>>

\* put_item of the seen-set.
RaceSave ==
    \E r \in Runs :
        LET ids == IF rkind[r] = "poll" THEN Range(rmsgs[r])
                   ELSE AllCurrentIds(rprev[r], Range(rmsgs[r]))
        IN
        /\ rpc[r] = "save"
        /\ seenItem' = put_item(seenItem, ids)
        /\ rwritten' = [rwritten EXCEPT ![r] = ids]
        /\ lastWriter' = r
        /\ rpc' = [rpc EXCEPT ![r] = "done"]
        /\ UNCHANGED <<mailbox, arrivals, mainLocals, rkind, rmsgs, rprev, sawOther>>

RaceNext ==
    \/ RaceArrive
    \/ RaceFetch
    \/ RaceLoad
    \/ RaceWork
    \/ RaceSave

RaceSpec == Init /\ [][RaceNext]_vars

(***************************************************************************)
(* Properties                                                              *)
(***************************************************************************)

\* The current run is one of the polling lambda and has classified.
PollRan == batch # <<>> /\ obs.classified # {}

\* Messages the polling run fetched unseen and left out of its batch.
Deferred == new_ids \ Range(batch)

\* C1: fail-safe classification.  A message whose classifier reply was not
\* a well-formed verdict (empty, unparsable, malformed) gets no delete
\* request, and nothing is counted as deleted for a malformed batch.
C1_FailSafe ==
    /\ obs.malformed \cap obs.tried = {}
    /\ (PollRan /\ obs.malformed # {}) => deleted_count = 0

\* C2: seen-set correctness of process_junk_mail.  In the seen-set a polling
\* run has written, no message beyond the classify limit is present and
\* every message of the classified batch is present.
C2_SeenSetCorrect ==
    (pc = "done" /\ response.kind = "summary" /\ recorded)
        => /\ Deferred \cap SeenIds = {}
           /\ Range(batch) \subseteq SeenIds

\* C3: validation handshake priority.  A request with a validationToken is
\* answered at once with 200, text/plain and the token as body, and the
\* invocation makes no external call at all, whatever its body carries.
C3_HandshakePriority ==
    event.query \in Tokens
        => /\ pc = "done"
           /\ response = [NoResponse EXCEPT !.statusCode = 200, !.ctype = "text/plain",
                                            !.kind = "token", !.token = event.query]
           /\ calls = NoCalls
           /\ obs = NoObs

\* C3 witness: a handshake request whose body carries a created notification
\* has been answered.
C3_Witness ==
    /\ pc = "done"
    /\ event.query = "abc123"
    /\ \E k \in 1..Len(event.value) : event.value[k].changeType = "created"
    /\ response.token = "abc123"

C5_SeenSetGrows == [][SeenIds \subseteq SeenIds']_vars

\* C6: invalid classifier references are discarded.  No message gets more
\* than one delete request in a run.
C6_AtMostOneDelete == obs.again = {}

\* C7: summary arithmetic of process_junk_mail.  In every summary the run
\* returns, deleted + kept = classified = min(unseen, classifyLimit), the
\* summary of the run that found nothing new included.
C7_SummaryArithmetic ==
    (pc = "done" /\ response.kind \in {"summary", "no_new"})
        => /\ response.deleted + response.kept = Len(batch)
           /\ Len(batch) = Min2(Cardinality(new_ids), ClassifyLimit)

\* C8: deletion isolation.  When a run's delete loop ends and one delete
\* answered a non-204 status, every message flagged by a well-formed verdict
\* has had its delete request and deleted_count counts exactly the deletes
\* that answered 204.
C8_DeletionIsolation ==
    (pc \in {"p_save", "h_save"} /\ obs.failed # {})
        => /\ obs.flagged \subseteq obs.tried
           /\ deleted_count = Cardinality(obs.ok)

\* C8 witness: two messages were flagged, the delete of one failed and the
\* delete of the other succeeded.
C8_Witness ==
    /\ pc \in {"p_save", "h_save"}
    /\ Cardinality(obs.flagged) = 2
    /\ obs.failed # {}
    /\ obs.ok # {}
    /\ obs.failed \cap obs.ok = {}

\* C9: a classifier failure never aborts the run.  A polling run whose
\* classifier reply was not a well-formed verdict ends with the normal
\* summary (status 200) after one write of the seen-set.
C9_ClassifierFailureRecovered ==
    (pc = "done" /\ PollRan /\ obs.malformed # {})
        => /\ response.statusCode = 200
           /\ response.kind = "summary"
           /\ calls.save = 1

\* Every id a message can have.
AllIds == 1..(MaxOf(InitSizes) + MaxArrivals)

\* C10: deferred messages are eventually classified.  A message a polling
\* run fetched unseen and left out of its batch is later submitted to the
\* classifier, unless it leaves the fetch window or the folder.
C10_DeferredEventuallyClassified ==
    \A m \in AllIds :
        (pc = "p_classify" /\ m \in Deferred)
            ~> (m \in obs.classified \/ m \notin Range(Newest(mailbox, FetchLimit)))

\* Positions of the created notifications of the request.
Created == {k \in 1..Len(notifications) : notifications[k].changeType = "created"}

C12_NeverFaults ==
    pc = "done"
        => /\ response.statusCode \in {200, 500}
           /\ response.kind \notin {"none", "raised"}
           /\ response.ctype \in {"json", "text/plain"}
           /\ (calls.raised # "none") <=> (response = Resp(500, "error"))

\* C12 witness: a webhook request whose delete request raised has been
\* answered with the failure response.
C12_Witness ==
    /\ pc = "done"
    /\ notifications # <<>>
    /\ calls.raised = "delete"
    /\ response = Resp(500, "error")

\* C13: a failed deletion is still marked seen.  After a run has written the
\* seen-set, every message whose delete request answered a non-success
\* status is in the stored set, and the run's deleted count is the number of
\* messages whose delete answered 204.
C13_FailedDeleteMarkedSeen ==
    (recorded /\ obs.failed # {})
        => /\ obs.failed \subseteq SeenIds
           /\ deleted_count = Cardinality(obs.ok)
           /\ (pc = "done" /\ response.kind = "summary")
                  => response.deleted = Cardinality(obs.ok)

\* C13 witness: a run has written the seen-set after a delete request of
\* it answered 404 for a message that is still in the folder.
C13_Witness ==
    /\ recorded
    /\ obs.failed # {}
    /\ obs.failed \subseteq mailbox
    /\ obs.failed \subseteq SeenIds
    /\ deleted_count = 0

\* C14: short-circuit on nothing new.  A run whose fetched ids are all in
\* the seen-set it loaded submits nothing to the classifier and sends no
\* delete request; it returns zero processed and zero deleted; the polling
\* run makes no classifier call and no delete call at all and its summary
\* says deleted = 0.
C14_ShortCircuit ==
    (msgs # <<>> /\ Range(msgs) \subseteq previous_ids)
        => /\ obs.classified = {}
           /\ obs.tried = {}
           /\ deleted_count = 0
           /\ Cardinality(new_ids \ previous_ids) = 0
           /\ pc \notin {"p_classify", "p_delete", "p_save"}
           /\ notifications = <<>> => (calls.classify = 0 /\ calls.delete = 0)
           /\ (pc = "done" /\ notifications = <<>>)
                  => (response.kind = "no_new" /\ response.deleted = 0)

\* C14 witness: a webhook run has gone through all the messages it fetched,
\* every one of them in the seen-set it loaded.
C14_Witness ==
    /\ pc = "h_save"
    /\ Len(msgs) = WebhookFetch
    /\ Range(msgs) \subseteq previous_ids
    /\ new_ids = Range(msgs)

\* C15: a seen-set load failure does not crash the run.  After get_item has
\* raised, the run goes on with an empty seen-set: every fetched message is
\* new, the messages submitted to the classifier are messages of the fetch
\* window (at most fetchLimit of them; the polling batch is its 10 newest,
\* the webhook run classifies all it fetched), no exception of the load
\* reaches lambda_handler, and a run in which nothing else raises returns its
\* summary with status 200.
C15_LoadFailureTolerated ==
    obs.loadFailed
        => /\ previous_ids = {}
           /\ calls.raised # "load"
           /\ obs.classified \subseteq Range(msgs)
           /\ Cardinality(obs.classified) <= FetchLimit
           /\ pc \in {"p_classify", "p_delete", "p_save"}
                  => (new_ids = Range(msgs) /\ batch = Prefix(msgs, ClassifyLimit))
           /\ pc = "h_save" => obs.classified = Range(msgs)
           /\ (pc = "done" /\ calls.raised = "none")
                  => /\ response.statusCode = 200
                     /\ response.kind \in {"summary", "hook_summary"}

\* C15 witness: a polling run whose load of the seen-set raised has fetched
\* a full window, classified its 10 newest messages and returned its summary.
C15_Witness ==
    /\ obs.loadFailed
    /\ pc = "done"
    /\ response.kind = "summary"
    /\ Len(msgs) = FetchLimit
    /\ Cardinality(obs.classified) = ClassifyLimit

\* C16 as stated, for the runs that end without an exception: a run that
\* fetched a message (and so went on to read the seen-set) has read it once
\* and written it once when it ends, with no classifier call or delete
\* request after the write.
C16_OneReadOneWrite ==
    (obs.loads > 0 /\ calls.raised = "none" /\ pc \in {"done", "h_notif"})
        => /\ obs.loads = 1
           /\ obs.saves = 1
           /\ ~obs.late

\* C16 amended: a run reads the seen-set at most once and writes it at most
\* once, never before a read, a classifier call or a delete request of the
\* run; a run that ends without an exception has written it once, except
\* the polling run that found no unseen message, which has not written it.
C16_CommitOrdering ==
    /\ obs.loads <= 1
    /\ obs.saves <= 1
    /\ obs.saves = 1 => obs.loads = 1
    /\ ~obs.late
    /\ pc \in {"p_classify", "p_delete", "p_save", "h_msg", "h_save"}
           => (obs.loads = 1 /\ obs.saves = 0)
    /\ (obs.loads = 1 /\ calls.raised = "none" /\ pc \in {"done", "h_notif"})
           => (obs.saves = 1 <=> ~(notifications = <<>> /\ new_ids = {}))
    /\ (obs.saves = 1 /\ notifications = <<>>) => calls.classify = 1

\* C16 witness: a run has written the seen-set after a classifier call and
\* a delete request.
C16_Witness ==
    /\ pc \in {"done", "h_notif"}
    /\ obs.loads = 1
    /\ obs.saves = 1
    /\ obs.classified # {}
    /\ obs.tried # {}
    /\ calls.raised = "none"

\* Both concurrent runs have finished.
RaceDone == \A r \in Runs : rpc[r] = "done"

\* The run that is not r.
Other(r) == 3 - r

\* C17: lost-update race.  The table holds what the last writer wrote and
\* nothing else (last writer wins), whatever the other run had written; when
\* the last writer is a webhook run that loaded after the other run's write,
\* nothing the other run wrote is missing.
C17_LastWriterWins ==
    /\ lastWriter # 0 => SeenIds = rwritten[lastWriter]
    /\ (lastWriter # 0 /\ rkind[lastWriter] = "hook" /\ sawOther[lastWriter])
           => rwritten[Other(lastWriter)] \subseteq SeenIds

\* C17 witness: two webhook runs have both loaded before either wrote and
\* have both finished, and an id that one of them wrote is no longer in
\* the table.
C17_LostUpdate ==
    /\ RaceDone
    /\ lastWriter # 0
    /\ \A r \in Runs : rkind[r] = "hook" /\ ~sawOther[r] /\ rwritten[r] # {}
    /\ \E id \in rwritten[Other(lastWriter)] : id \notin SeenIds

\* C18: deletes are always justified.  Every message a run sends a delete
\* request for was fetched by that run, was not in the seen-set the run
\* loaded, was submitted to the classifier and is named for deletion by the
\* classifier's reply; no message of the loaded seen-set is classified or
\* delete-attempted.
C18_DeletesJustified ==
    /\ obs.tried \subseteq Range(msgs)
    /\ obs.tried \cap previous_ids = {}
    /\ obs.tried \subseteq obs.classified
    /\ obs.tried \subseteq obs.named
    /\ obs.classified \subseteq Range(msgs)
    /\ obs.classified \cap previous_ids = {}

\* C18 witness: a run that loaded a seen-set holding some of the messages it
\* fetched has sent a delete request for another one.
C18_Witness ==
    /\ pc \in {"p_save", "h_save"}
    /\ obs.tried # {}
    /\ previous_ids \cap Range(msgs) # {}
    /\ obs.classified # Range(msgs)

\* C19: no double handling inside one webhook request.  As long as every
\* get_item and put_item of the request has succeeded, no message has been
\* submitted to the classifier twice, sent two delete requests or counted
\* twice in processed, over all the notifications of the request; the
\* processed total is the number of distinct messages counted.
C19_NoDoubleHandling ==
    (notifications # <<>> /\ ~calls.ioFailed)
        => /\ calls.doubled = {}
           /\ total_processed = Cardinality(calls.countedIds)
           /\ calls.countedIds \subseteq calls.classifiedIds \cup obs.classified
           /\ (pc = "done" /\ response.kind = "hook_summary")
                  => response.processed = Cardinality(calls.countedIds)

\* C19 witness: a request with two created notifications has ended; the
\* first run classified a full window and deleted a message, the second
\* classified only the older message that entered the window.
C19_Witness ==
    /\ pc = "done"
    /\ response.kind = "hook_summary"
    /\ ~calls.ioFailed
    /\ calls.invoked = {1, 2}
    /\ calls.fetch = 2
    /\ response.processed = WebhookFetch + 1
    /\ Cardinality(calls.classifiedIds) = WebhookFetch + 1
    /\ calls.doubled = {}

TypeOK ==
    /\ mailbox \subseteq 1..(MaxOf(InitSizes) + MaxArrivals)
    /\ pc \in {"idle", "done", "p_load", "p_classify", "p_delete", "p_save",
               "h_notif", "h_load", "h_msg", "h_save"}
    /\ faults \in 0..MaxFaults
====
